---- MODULE Spec2Model ----
(***************************************************************************)
(* Model of the beam search of src/beam_search.py (class Beam).            *)
(*                                                                         *)
(* Tensors of length n are functions on 0..n-1 (the source's indexing),    *)
(* the Python lists prevKs and nextYs are sequences of such tensors.       *)
(* Floating point values are the finite numbers the bounded inputs can     *)
(* produce (kept exact, as integers) together with -inf and NaN, with the  *)
(* IEEE-754 rules the source relies on: -inf * x = -inf for x > 0,         *)
(* -inf * 0 = NaN, NaN and -inf absorb a sum.                              *)
(*                                                                         *)
(* Library behaviour the source is written against:                        *)
(*  - Tensor.nonzero() of a tensor without non-zero entries has fewer than *)
(*    two dimensions, so `x.nonzero().dim() > 1` reads "x has a non-zero   *)
(*    entry" (lines 89 and 94 and the comment of line 93);                 *)
(*  - `/` on LongTensors is integer division (line 81);                    *)
(*  - topk orders NaN above every number, and leaves the order of equal    *)
(*    values open: every order of ties is a possible outcome.              *)
(*                                                                         *)
(* flat_beam_lk is the candidate table of the latest advance call (the     *)
(* local of line 74), ret the value the latest call returned.              *)
(***************************************************************************)
EXTENDS Integers, Sequences, FiniteSets, TLC

\* ---- bounds of the model ----
MaxSize == 2
MaxLk == 1
MaxSteps == 2

\* ---- vocabulary: processor.w2i of the four reserved symbols ----
PAD == 0
START == 1
END == 2
UNK == 3
Words == {PAD, START, END, UNK}
NumWords == Cardinality(Words)

VARIABLES size, done, scores, mask, prevKs, nextYs, flat_beam_lk, ret

vars == <<size, done, scores, mask, prevKs, nextYs, flat_beam_lk, ret>>

Slots == 0 .. size - 1

\* ---- float values ----
Fin(n) == [k |-> "fin", v |-> n]
NegInf == [k |-> "-inf", v |-> 0]
NaN == [k |-> "nan", v |-> 0]

IsFinite(x) == x.k = "fin"

\* a * b for a, b in {finite >= 0, -inf, NaN}
FMul(a, b) ==
    IF a.k = "nan" \/ b.k = "nan" THEN NaN
    ELSE IF a.k = "fin" /\ b.k = "fin" THEN Fin(a.v * b.v)
    ELSE IF a.k = "-inf" /\ b.k = "fin" THEN (IF b.v = 0 THEN NaN ELSE NegInf)
    ELSE IF a.k = "fin" /\ b.k = "-inf" THEN (IF a.v = 0 THEN NaN ELSE NegInf)
    ELSE NaN

\* a + b for a, b in {finite, -inf, NaN}
FAdd(a, b) ==
    IF a.k = "nan" \/ b.k = "nan" THEN NaN
    ELSE IF a.k = "-inf" \/ b.k = "-inf" THEN NegInf
    ELSE Fin(a.v + b.v)

\* a < 0 as the comparison of line 66 computes it (false on NaN)
FNegative(a) == a.k = "-inf" \/ (a.k = "fin" /\ a.v < 0)

\* topk's order: a ranks strictly above b
TopkAbove(a, b) ==
    CASE a.k = "nan" -> b.k # "nan"
      [] a.k = "fin" -> b.k = "-inf" \/ (b.k = "fin" /\ a.v > b.v)
      [] OTHER -> FALSE

\* ---- Beam.__init__ ----
InitScores(n) == [i \in 0 .. n - 1 |-> Fin(0)]
InitMask(n) == [i \in 0 .. n - 1 |-> Fin(1)]
InitNextYs(n) == << [i \in 0 .. n - 1 |-> IF i = 0 THEN START ELSE PAD] >>

NoRet == [op |-> "none", done |-> FALSE, k |-> 0, hyp |-> <<>>, err |-> "none"]

Init ==
    /\ size \in 1 .. MaxSize
    /\ done = FALSE
    /\ scores = InitScores(size)
    /\ mask = InitMask(size)
    /\ prevKs = <<>>
    /\ nextYs = InitNextYs(size)
    /\ flat_beam_lk = <<>>
    /\ ret = NoRet

\* ---- Beam.advance ----
\* the step tables a caller may pass: size x num_words, finite and >= 0
LkTables == [Slots -> [0 .. NumWords - 1 -> 0 .. MaxLk]]

\* lines 63 and 66: mask * word_lk, then the PAD column of finished rows := 0
MaskedLk(lk) ==
    [i \in Slots |-> [w \in 0 .. NumWords - 1 |->
        IF FNegative(mask[i]) /\ w = PAD
        THEN Fin(0)
        ELSE FMul(mask[i], Fin(lk[i][w]))]]

\* lines 69-74: the flattened candidate table
FlatBeamLk(wl) ==
    IF Len(prevKs) > 0
    THEN [f \in 0 .. size * NumWords - 1 |->
            FAdd(wl[f \div NumWords][f % NumWords], scores[f \div NumWords])]
    ELSE [f \in 0 .. NumWords - 1 |-> wl[0][f]]

\* faulty variant of Largest: topk called with largest=False
Smallest(flat, rem) ==
    {i \in rem : \A j \in rem : ~TopkAbove(flat[i], flat[j])}

\* the positions of rem no other position of rem ranks above
Largest(flat, rem) ==
    {i \in rem : \A j \in rem : ~TopkAbove(flat[j], flat[i])}

\* line 76: every result topk(k, largest, sorted) may give, as the sequences
\* of the k selected positions, best first
RECURSIVE TopkFrom(_, _, _)
TopkFrom(flat, rem, k) ==
    IF k = 0 THEN {<<>>}
    ELSE UNION {{<<i>> \o rest : rest \in TopkFrom(flat, rem \ {i}, k - 1)} :
                    i \in Largest(flat, rem)}

Topk(flat, k) == TopkFrom(flat, DOMAIN flat, k)

\* lines 81 and 83
PrevK(id) == id \div NumWords
NextY(id) == id - PrevK(id) * NumWords

\* lines 87-88
EosIndices(next_y) == [i \in Slots |-> next_y[i] = END \/ next_y[i] = PAD]

\* lines 89-91
NewMask(eos) ==
    IF \E i \in Slots : eos[i]
    THEN [i \in Slots |-> IF eos[i] THEN NegInf ELSE Fin(1)]
    ELSE mask

\* faulty variant of NewDone: the end condition never fires
NewDoneNever(m) == done

\* lines 94-95
NewDone(m) == IF \A i \in Slots : m[i] # Fin(1) THEN TRUE ELSE done

\* faulty variant of NewPrevKs: only the latest backpointer record is kept
NewPrevKsLatestOnly(prev_k) == <<prev_k>>

\* lines 82-83
NewPrevKs(prev_k) == Append(prevKs, prev_k)
NewNextYs(next_y) == Append(nextYs, next_y)

Advance(lk) ==
    /\ Len(prevKs) < MaxSteps
    /\ \E flat \in {FlatBeamLk(MaskedLk(lk))} :
       \E ids \in Topk(flat, size) :
       \E next_y \in {[i \in Slots |-> NextY(ids[i + 1])]} :
       \E m \in {NewMask(EosIndices(next_y))} :
            /\ flat_beam_lk' = flat
            /\ scores' = [i \in Slots |-> flat[ids[i + 1]]]
            /\ prevKs' = NewPrevKs([i \in Slots |-> PrevK(ids[i + 1])])
            /\ nextYs' = NewNextYs(next_y)
            /\ mask' = m
            /\ done' = NewDone(m)
            /\ ret' = [NoRet EXCEPT !.op = "advance", !.done = NewDone(m)]
    /\ UNCHANGED size

\* ---- Beam.get_hyp ----
\* faulty variant of InRange: negative indices rejected
InRangeNonNegative(k) == k >= 0 /\ k < size

\* indexing a tensor of length size with k: negative k counts from the end
InRange(k) == k >= -size /\ k < size
Index(k) == IF k < 0 THEN k + size ELSE k

\* lines 120-122, from step j down to 0; "IndexError" when an index is out of range
RECURSIVE Walk(_, _, _, _, _)
Walk(pk, ny, j, k, hyp) ==
    IF j < 0 THEN [err |-> "none", hyp |-> hyp]
    ELSE IF ~InRange(k) THEN [err |-> "IndexError", hyp |-> <<>>]
    ELSE Walk(pk, ny, j - 1, pk[j + 1][Index(k)], Append(hyp, ny[j + 2][Index(k)]))

\* faulty variant of Reversed: the collected tokens are returned as walked
NotReversed(s) == s

\* line 124: hyp[::-1]
Reversed(s) == [i \in 1 .. Len(s) |-> s[Len(s) + 1 - i]]

GetHyp(pk, ny, k) ==
    LET w == Walk(pk, ny, Len(pk) - 1, k, <<>>)
    IN [err |-> w.err, hyp |-> Reversed(w.hyp)]

\* the slot arguments a caller may pass
HypArgs == -(size + 1) .. size

get_hyp(k) ==
    /\ LET r == GetHyp(prevKs, nextYs, k)
       IN ret' = [NoRet EXCEPT !.op = "get_hyp", !.k = k, !.hyp = r.hyp, !.err = r.err]
    /\ UNCHANGED <<size, done, scores, mask, prevKs, nextYs, flat_beam_lk>>

Next ==
    \/ (Len(prevKs) < MaxSteps /\ \E lk \in LkTables : Advance(lk))
    \/ \E k \in HypArgs : get_hyp(k)

Spec == Init /\ [][Next]_vars

\* ---- properties ----
LastPrevK == prevKs[Len(prevKs)]
LastNextY == nextYs[Len(nextYs)]
IsEos(w) == w = END \/ w = PAD
Advanced == Len(prevKs) > 0
\* the flattened position slot i was selected from
BestId(i) == LastPrevK[i] * NumWords + LastNextY[i]
\* a step of advance
AdvanceStep == Len(prevKs') = Len(prevKs) + 1

\* C1: after every advance, slot i is marked finished in the mask if and only
\* if the token just emitted for slot i is END or PAD, and active otherwise.
C1_MaskFollowsLatestToken ==
    Advanced =>
        \A i \in Slots :
            /\ (mask[i] = NegInf) <=> IsEos(LastNextY[i])
            /\ (mask[i] = Fin(1)) <=> ~IsEos(LastNextY[i])

\* C2: in every advance after the first, for every slot s finished when the
\* call starts, the candidate that extends s with PAD equals s's score, and no
\* selected candidate extends s with another token than PAD.
C2_FinishedExtendsByPadOnly ==
    [][(AdvanceStep /\ Advanced) =>
        \A s \in Slots :
            mask[s] = NegInf =>
                /\ flat_beam_lk'[s * NumWords + PAD] = scores[s]
                /\ \A i \in Slots :
                      prevKs'[Len(prevKs')][i] = s => nextYs'[Len(nextYs')][i] = PAD
      ]_vars

\* the END column holds the strictly largest value of a row of num_words values
EndStrictlyLargest(row) ==
    \A w \in 0 .. NumWords - 1 :
        w # END => (IsFinite(row[w]) /\ IsFinite(row[END]) /\ row[END].v > row[w].v)

\* C3 (as stated): a fresh beam of any size whose first table has END strictly
\* largest in its rows is done after exactly one advance. On the first step
\* the candidate table is row 0 of the table (line 72), no other row is read.
C3_DoneAfterOneAdvance ==
    /\ ~Advanced => ~done
    /\ (Len(prevKs) = 1 /\ EndStrictlyLargest(flat_beam_lk)) => done

\* C3 (amended): with END strictly largest in row 0, the first advance selects
\* END for slot 0 and returns true exactly when every other selected token is
\* PAD; for beam size 1 it always returns true, after exactly one call.
C3_DoneAfterOneAdvanceSizeOne ==
    /\ ~Advanced => ~done
    /\ (Len(prevKs) = 1 /\ EndStrictlyLargest(flat_beam_lk)) =>
          /\ LastNextY[0] = END
          /\ done <=> (\A i \in Slots : i > 0 => LastNextY[i] = PAD)
          /\ size = 1 => done
          /\ ret.op = "advance" => ret.done = done

C3_Witness ==
    /\ size = 1 /\ Len(prevKs) = 1 /\ EndStrictlyLargest(flat_beam_lk)
    /\ ret.op = "advance" /\ ret.done

\* the candidate table has num_words entries on the first step and
\* size * num_words afterwards, and the selected positions lie in it
CandidateShape ==
    /\ DOMAIN flat_beam_lk =
          (IF Len(prevKs) = 1 THEN 0 .. NumWords - 1 ELSE 0 .. size * NumWords - 1)
    /\ \A i \in Slots :
          /\ LastNextY[i] \in 0 .. NumWords - 1
          /\ LastPrevK[i] >= 0
          /\ BestId(i) \in DOMAIN flat_beam_lk
          /\ scores[i] = flat_beam_lk[BestId(i)]
    /\ \A i, j \in Slots : i # j => BestId(i) # BestId(j)

Selected == {BestId(i) : i \in Slots}

\* the single-step scenario: size 2, first-step row [0.1, 0.0, 0.1, 0.8], here in
\* units that keep its order (1, 0, 1, 2); it needs MaxLk >= 2
ScenarioFirstStep ==
    /\ size = 2 /\ Len(prevKs) = 1
    /\ flat_beam_lk = [w \in 0 .. NumWords - 1 |->
          IF w = UNK THEN Fin(2) ELSE IF w = START THEN Fin(0) ELSE Fin(1)]

C5_ReturnsDoneIffNoneActive ==
    ret.op = "advance" => (ret.done <=> (\A i \in Slots : mask[i] # Fin(1)))

C7_HistoriesGrowTogether ==
    /\ (Len(nextYs) = 1 /\ Len(prevKs) = 0)
    /\ [](Len(nextYs) = Len(prevKs) + 1)
    /\ [][IF ret'.op = "advance"
          THEN /\ Len(prevKs') = Len(prevKs) + 1
               /\ Len(nextYs') = Len(nextYs) + 1
               /\ SubSeq(prevKs', 1, Len(prevKs)) = prevKs
               /\ SubSeq(nextYs', 1, Len(nextYs)) = nextYs
               /\ DOMAIN prevKs'[Len(prevKs')] = Slots
               /\ DOMAIN nextYs'[Len(nextYs')] = Slots
          ELSE prevKs' = prevKs /\ nextYs' = nextYs]_vars

C7_Witness ==
    Len(prevKs) = 2 /\ Len(nextYs) = 3 /\ ret.op = "advance"

\* C8: after every advance every entry of scores is finite.
C8_ScoresFinite ==
    Advanced => \A i \in Slots : IsFinite(scores[i])

Front(s) == SubSeq(s, 1, Len(s) - 1)

\* C9: after n advance calls get_hyp(k), k in [0, size), returns n tokens, the
\* START record excluded; the last is nextYs[n][k] and the first n-1 are what
\* get_hyp(prevKs[n-1][k]) returned after n-1 calls; every backpointer lies in
\* [0, size) and every backpointer of the first step is 0.
C9_HypFollowsBackpointers ==
    /\ \A j \in 1 .. Len(prevKs) : \A i \in Slots : prevKs[j][i] \in Slots
    /\ Advanced => \A i \in Slots : prevKs[1][i] = 0
    /\ \A k \in Slots :
          LET n == Len(prevKs)
              r == GetHyp(prevKs, nextYs, k)
          IN /\ r.err = "none"
             /\ Len(r.hyp) = n
             /\ n > 0 =>
                   /\ r.hyp[n] = nextYs[n + 1][k]
                   /\ SubSeq(r.hyp, 1, n - 1) =
                         GetHyp(Front(prevKs), Front(nextYs), prevKs[n][k]).hyp
             /\ (ret.op = "get_hyp" /\ ret.k = k) => (ret.err = "none" /\ ret.hyp = r.hyp)

C9_Witness ==
    /\ ret.op = "get_hyp" /\ Len(prevKs) = 2 /\ ret.k = 0
    /\ prevKs[2][0] = 1
    /\ ret.hyp = <<nextYs[2][1], nextYs[3][0]>>
    /\ nextYs[2][0] # nextYs[2][1]

\* C10: in the sequence get_hyp(k) returns, k in [0, size), every token after
\* an END or PAD token is PAD.
C10_OnlyPadAfterTerminal ==
    \A k \in Slots :
        LET hyp == GetHyp(prevKs, nextYs, k).hyp
        IN \A p, q \in 1 .. Len(hyp) : (p < q /\ IsEos(hyp[p])) => hyp[q] = PAD

====
